---- MODULE Spec2Model ----
(***************************************************************************)
(* Model of lib/fuffr.js: the callback registry (callbackIdCounter,        *)
(* callbackTable), the gesture API built on it and the commands it hands   *)
(* to the bridge transport.                                                *)
(*                                                                         *)
(* Every API call is one action.  The effects a call performs are listed   *)
(* in statement order as a sequence of events                              *)
(*   <<"store", id, value>>    callbackTable[id] = value                   *)
(*   <<"delete", id>>          delete callbackTable[id]                    *)
(*   <<"send", command>>       fuffr.internal.callNative(command)          *)
(*   <<"invoke", fn, args>>    fn.apply(null, args)                        *)
(*   <<"throw", "TypeError">>  the call ends with an exception             *)
(* and the next registry state is obtained by running these events over    *)
(* the current one.  The variable last records the call just made, issued   *)
(* the identifiers returned so far with the handlers supplied, removed the *)
(* identifiers whose entry a call has deleted, and requests the requests   *)
(* handed to the transport whose completion is still to come.  Spec and    *)
(* SpecParams leave the transport's answers out and keep requests empty;   *)
(* SpecTransport follows every request until readyState 4.                 *)
(***************************************************************************)
EXTENDS Integers, Sequences, FiniteSets, TLC

VARIABLES callbackIdCounter, callbackTable, issued, last, removed, requests

vars == <<callbackIdCounter, callbackTable, issued, last, removed, requests>>

----------------------------------------------------------------------------
(* Bounds of the model. *)

\* Registrations cease once the counter has reached MaxIds.
MaxIds == 2

\* In SpecTransport a call that sends is made only while it leaves at most
\* MaxRequests requests without an answer.
MaxRequests == 1

----------------------------------------------------------------------------
(* Program constants. *)

FFRSideLeft == 4
FFRSideRight == 8
FFRGesturePan == 1
FFRGestureTap == 4

\* request.status === 200
StatusOK == 200

\* request.readyState === 4
ReadyStateDone == 4

----------------------------------------------------------------------------
(* JavaScript values. *)

Undefined == [t |-> "undefined"]
Null == [t |-> "null"]
Num(n) == [t |-> "number", n |-> n]
Str(s) == [t |-> "string", s |-> s]
Fun(k) == [t |-> "function", f |-> k]

\* A plain object carrying the four gesture options; an option that is not
\* set on the object reads as Undefined.
Obj(maxDur, minDur, maxDist, minDist) ==
    [t |-> "object", maximumDuration |-> maxDur, minimumDuration |-> minDur,
     maximumDistance |-> maxDist, minimumDistance |-> minDist]

\* ToBoolean
Truthy(v) ==
    CASE v.t = "undefined" -> FALSE
      [] v.t = "null"      -> FALSE
      [] v.t = "number"    -> v.n # 0
      [] v.t = "string"    -> v.s # ""
      [] OTHER             -> TRUE

\* typeof
TypeOf(v) == IF v.t = "null" THEN "object" ELSE v.t

Digit(d) == <<"0", "1", "2", "3", "4", "5", "6", "7", "8", "9">>[d + 1]

\* Number-to-string conversion of a non-negative integer.
RECURSIVE NumToStr(_)
NumToStr(n) == IF n < 10 THEN Digit(n) ELSE NumToStr(n \div 10) \o Digit(n % 10)

\* The string a value becomes when concatenated to a string with +.
ToStr(v) ==
    CASE v.t = "undefined" -> "undefined"
      [] v.t = "null"      -> "null"
      [] v.t = "number"    -> NumToStr(v.n)
      [] v.t = "string"    -> v.s
      [] OTHER             -> "[object Object]"

\* Property read params.<name>.
GetProp(params, name) ==
    IF params.t = "object" THEN params[name] ELSE Undefined

\* arguments[i - 1]
Arg(args, i) == IF i <= Len(args) THEN args[i] ELSE Undefined

----------------------------------------------------------------------------
(* The callback table: a function from the identifiers present to values. *)

EmptyTable == [id \in {} |-> Undefined]

\* callbackTable[id] = value
TablePut(table, id, value) ==
    [k \in DOMAIN table \cup {id} |-> IF k = id THEN value ELSE table[k]]

\* Variant: the entry is kept.
TableDelete_Keep(table, id) == table

\* Variant: the entry of id and every entry after it are dropped.
TableDelete_Truncate(table, id) ==
    [k \in { j \in DOMAIN table : j < id } |-> table[k]]

\* delete callbackTable[id]
TableDelete(table, id) == [k \in DOMAIN table \ {id} |-> table[k]]

\* callbackTable[id]
TableGet(table, id) == IF id \in DOMAIN table THEN table[id] ELSE Undefined

\* Variant: callbackIdCounter++, whose value is the counter before advancing.
PostIncrement(counter) == [counter |-> counter + 1, value |-> counter]

\* Variant: callbackIdCounter + 1, which leaves the counter where it was.
NoIncrement(counter) == [counter |-> counter, value |-> counter + 1]

\* ++callbackIdCounter: the counter is advanced and the expression has the
\* advanced value.
PreIncrement(counter) == [counter |-> counter + 1, value |-> counter + 1]

----------------------------------------------------------------------------
(* Running a call's events over the registry. *)

ApplyEvent(table, ev) ==
    CASE ev[1] = "store"  -> TablePut(table, ev[2], ev[3])
      [] ev[1] = "delete" -> TableDelete(table, ev[2])
      [] OTHER            -> table

RECURSIVE ApplyEvents(_, _)
ApplyEvents(table, evs) ==
    IF evs = <<>> THEN table
    ELSE ApplyEvents(ApplyEvent(table, Head(evs)), Tail(evs))

\* fuffr.internal.callNative(command): the command is handed to the transport.
callNative(command) == <<"send", command>>

\* fuffr.internal.callNative(command, win, fail): as above, with the
\* callbacks the request's onreadystatechange closes over.
callNativeWith(command, win, fail) == <<"send", command, win, fail>>

\* The request a send event opens: new XMLHttpRequest(), open, send.
RequestOf(ev) ==
    [t |-> "request", command |-> ev[2],
     win  |-> IF Len(ev) = 4 THEN ev[3] ELSE Undefined,
     fail |-> IF Len(ev) = 4 THEN ev[4] ELSE Undefined]

\* The requests a call's events open, in order.
RECURSIVE RequestsOf(_)
RequestsOf(evs) ==
    IF evs = <<>> THEN <<>>
    ELSE (IF Head(evs)[1] = "send" THEN << RequestOf(Head(evs)) >> ELSE <<>>)
             \o RequestsOf(Tail(evs))

\* cb && cb(arg): nothing for a falsy cb, a call for a function, a TypeError
\* for any other value.
CallIfSet(cb, arg) ==
    IF Truthy(cb)
    THEN IF TypeOf(cb) = "function"
         THEN << <<"invoke", cb, <<arg>> >> >>
         ELSE << <<"throw", "TypeError">> >>
    ELSE <<>>

\* Variant: a request that fails takes the registrations back.
onreadystatechange_Rollback(request, readyState, status, responseText) ==
    IF readyState = ReadyStateDone
    THEN IF status = StatusOK
         THEN CallIfSet(request.win, Str(responseText))
         ELSE [i \in 1..MaxIds |-> <<"delete", i>>]
                  \o CallIfSet(request.fail, Num(status))
    ELSE <<>>

\* Variant: the status is not looked at and both callbacks are called.
onreadystatechange_Both(request, readyState, status, responseText) ==
    IF readyState = ReadyStateDone
    THEN CallIfSet(request.win, Str(responseText))
             \o CallIfSet(request.fail, Num(status))
    ELSE <<>>

\* request.onreadystatechange
onreadystatechange(request, readyState, status, responseText) ==
    IF readyState = ReadyStateDone
    THEN IF status = StatusOK
         THEN CallIfSet(request.win, Str(responseText))
         ELSE CallIfSet(request.fail, Num(status))
    ELSE <<>>

----------------------------------------------------------------------------
(* fuffr.enableSides, fuffr.log, fuffr.updateFirmware *)

\* Variant: the delimiter after touchesPerSide is left out.
enableSides_Unterminated(sides, touchesPerSide, win, fail) ==
    << callNativeWith("enableSides@" \o ToStr(sides) \o "@"
                          \o ToStr(touchesPerSide), win, fail) >>

\* fuffr.enableSides(sides, touchesPerSide, win, fail)
enableSides(sides, touchesPerSide, win, fail) ==
    << callNativeWith("enableSides@" \o ToStr(sides) \o "@"
                          \o ToStr(touchesPerSide) \o "@", win, fail) >>

\* fuffr.log(message, win, fail)
log(message, win, fail) ==
    << callNativeWith("consoleLog@" \o ToStr(message) \o "@", win, fail) >>

\* fuffr.updateFirmware(win, fail)
updateFirmware(win, fail) == << callNativeWith("updateFirmware@", win, fail) >>

----------------------------------------------------------------------------
(* fuffr.addGesture *)

\* The callback picked from the arguments: the fourth of four, the third of
\* three, null for any other number of arguments.
CallbackArg(args) ==
    IF Len(args) = 4 THEN args[4]
    ELSE IF Len(args) = 3 THEN args[3]
    ELSE Null

\* The params picked from the arguments: the third of four, else null.
ParamsArg(args) == IF Len(args) = 4 THEN args[3] ELSE Null

\* Variant: only null counts as a missing callback.
NoCallback_NullOnly(callback) == callback = Null

\* if (!callback && typeof callback != 'function') return
NoCallback(callback) == ~Truthy(callback) /\ TypeOf(callback) # "function"

\* Variant: sides and gestureType change places.
BasicMessage_Swapped(gestureType, sides, gestureId) ==
    "addGesture@" \o ToStr(sides) \o "@" \o ToStr(gestureType) \o "@"
        \o NumToStr(gestureId) \o "@"

\* 'addGesture@' + gestureType + '@' + sides + '@' + gestureId + '@'
BasicMessage(gestureType, sides, gestureId) ==
    "addGesture@" \o ToStr(gestureType) \o "@" \o ToStr(sides) \o "@"
        \o NumToStr(gestureId) \o "@"

\* Variant: the duration options are sent under names of their own.
DurationParam_Named(params) ==
    IF Truthy(GetProp(params, "maximumDuration"))
    THEN "maximumDuration@" \o ToStr(GetProp(params, "maximumDuration")) \o "@"
    ELSE IF Truthy(GetProp(params, "minimumDuration"))
    THEN "minimumDuration@" \o ToStr(GetProp(params, "minimumDuration")) \o "@"
    ELSE ""

\* Variant: minimumDuration is tested before maximumDuration.
DurationParam_MinFirst(params) ==
    IF Truthy(GetProp(params, "minimumDuration"))
    THEN "minumumDistance@" \o ToStr(GetProp(params, "minimumDuration")) \o "@"
    ELSE IF Truthy(GetProp(params, "maximumDuration"))
    THEN "maximumDistance@" \o ToStr(GetProp(params, "maximumDuration")) \o "@"
    ELSE ""

\* The duration field appended to the message.
DurationParam(params) ==
    IF Truthy(GetProp(params, "maximumDuration"))
    THEN "maximumDistance@" \o ToStr(GetProp(params, "maximumDuration")) \o "@"
    ELSE IF Truthy(GetProp(params, "minimumDuration"))
    THEN "minumumDistance@" \o ToStr(GetProp(params, "minimumDuration")) \o "@"
    ELSE ""

\* The distance field appended to the message.
DistanceParam(params) ==
    IF Truthy(GetProp(params, "maximumDistance"))
    THEN "maximumDistance@" \o ToStr(GetProp(params, "maximumDistance")) \o "@"
    ELSE IF Truthy(GetProp(params, "minimumDistance"))
    THEN "minumumDistance@" \o ToStr(GetProp(params, "minimumDistance")) \o "@"
    ELSE ""

\* if (params) { duration field; distance field }
GestureParams(params) ==
    IF Truthy(params) THEN DurationParam(params) \o DistanceParam(params)
    ELSE ""

\* Variant: the command is sent before the table entry is written.
SendAndRegister(gestureId, callback, message) ==
    << callNative(message), <<"store", gestureId, callback>> >>

\* The effects of the part of addGesture that follows the callback test, in
\* statement order: the table entry is written, then the command is sent.
RegisterAndSend(gestureId, callback, message) ==
    << <<"store", gestureId, callback>>, callNative(message) >>

\* The whole call: the counter it leaves, its effects, the value it returns.
addGesture(counter, args) ==
    LET gestureType == Arg(args, 1)
        sides       == Arg(args, 2)
        params      == ParamsArg(args)
        callback    == CallbackArg(args)
        inc         == PreIncrement(counter)
        gestureId   == inc.value
        message     == BasicMessage(gestureType, sides, gestureId)
                           \o GestureParams(params)
    IN  IF NoCallback(callback)
        THEN [counter |-> counter, events |-> <<>>, ret |-> Undefined]
        ELSE [counter |-> inc.counter,
              events  |-> RegisterAndSend(gestureId, callback, message),
              ret     |-> Num(gestureId)]

----------------------------------------------------------------------------
(* fuffr.removeGesture, fuffr.removeAllGestures and fuffr.internal.* *)

\* fuffr.internal.removeCallback(gestureId)
removeCallback(gestureId) == << <<"delete", gestureId.n>> >>

\* Variant: the command is sent and the table entry is kept.
removeGesture_NoDelete(gestureId) ==
    << callNative("removeGesture@" \o ToStr(gestureId) \o "@") >>

\* fuffr.removeGesture(gestureId): removeCallback, then the command.
removeGesture(gestureId) ==
    removeCallback(gestureId)
        \o << callNative("removeGesture@" \o ToStr(gestureId) \o "@") >>

\* Variant: the entries are deleted before the command is sent.
removeAllGestures_Clearing ==
    [i \in 1..MaxIds |-> <<"delete", i>>]
        \o << callNative("removeAllGestures@") >>

\* fuffr.removeAllGestures()
removeAllGestures == << callNative("removeAllGestures@") >>

\* fuffr.internal.addCallback(callbackFun)
addCallback(counter, callbackFun) ==
    LET inc        == PreIncrement(counter)
        callbackId == inc.value
    IN  [counter |-> inc.counter,
         events  |-> << <<"store", callbackId, callbackFun>> >>,
         ret     |-> Num(callbackId)]

\* Variant: the identifier is not removed from the arguments.
HandlerArgs_NoShift(args) == args

\* The arguments the handler receives: all but the first.
HandlerArgs(args) == Tail(args)

\* Variant: the entry is deleted once its function has been called.
performCallback_Once(table, args) ==
    LET callbackFun == TableGet(table, args[1].n)
    IN  IF Truthy(callbackFun)
        THEN IF TypeOf(callbackFun) = "function"
             THEN << <<"invoke", callbackFun, HandlerArgs(args)>>,
                     <<"delete", args[1].n>> >>
             ELSE << <<"throw", "TypeError">> >>
        ELSE <<>>

\* fuffr.internal.performCallback(gestureId, ...): applying a value that is
\* not a function raises a TypeError.
performCallback(table, args) ==
    LET callbackFun == TableGet(table, args[1].n)
    IN  IF Truthy(callbackFun)
        THEN IF TypeOf(callbackFun) = "function"
             THEN << <<"invoke", callbackFun, HandlerArgs(args)>> >>
             ELSE << <<"throw", "TypeError">> >>
        ELSE <<>>

----------------------------------------------------------------------------
(* Inputs. *)

\* (gestureType, sides) pairs used in calls.
GestureKinds == { <<Num(FFRGestureTap), Num(FFRSideLeft)>>,
                  <<Num(FFRGesturePan), Num(FFRSideRight)>> }

ExampleParams == Obj(Num(2), Num(5), Num(3), Undefined)

\* Values passed in the callback position.
CallbackVals == { Undefined, Null, Fun(1), Fun(2), Num(0), Num(5), Str("cb"),
                  ExampleParams }

\* Values passed in the params position by Spec.
ParamVals == { Null, ExampleParams }

\* The params objects of SpecParams: every option is not set, zero or a
\* non-zero number.
AllParams ==
    { Obj(a, b, c, d) : a \in { Undefined, Num(0), Num(2) },
                        b \in { Undefined, Num(0), Num(5) },
                        c \in { Undefined, Num(0), Num(3) },
                        d \in { Undefined, Num(0), Num(13) } }

ArgLists(kinds, paramVals, callbackVals) ==
    { <<>> }
    \cup { <<k[1]>> : k \in kinds }
    \cup { <<k[1], k[2]>> : k \in kinds }
    \cup { <<k[1], k[2], cb>> : k \in kinds, cb \in callbackVals }
    \cup { <<k[1], k[2], p, cb>> : k \in kinds, p \in paramVals, cb \in callbackVals }
    \cup { <<k[1], k[2], p, Fun(1), Num(0)>> : k \in kinds, p \in paramVals }

GestureArgs == ArgLists(GestureKinds, ParamVals, CallbackVals)

ParamArgs == { <<k[1], k[2], p, Fun(1)>> : k \in GestureKinds, p \in AllParams }

\* Values passed to addCallback.
CallbackFuns == { Fun(1), Fun(2), Undefined }

\* Identifiers passed to removeGesture, removeCallback and performCallback.
IdVals == { Num(n) : n \in 0..(MaxIds + 1) }

\* The win and fail callbacks passed together: both left out, both
\* functions, or a number in the place of win.
CallbackPairs == { <<Undefined, Undefined>>, <<Fun(3), Fun(4)>>,
                   <<Num(5), Undefined>> }

\* Sides bitmasks: every union of the four sides.
SidesVals == { Num(s) : s \in 0..15 }

\* Touches per side.
TouchesVals == { Num(0), Num(1), Num(10) }

\* Messages logged; the first is the one fuffr.on.disconnected logs.
LogMessages == { Str("fuffr disconnected") }

\* Arguments of addGesture in SpecTransport.
BridgeGestureArgs ==
    { <<Num(FFRGestureTap), Num(FFRSideLeft), Fun(1)>>,
      <<Num(FFRGestureTap), Num(FFRSideLeft), Num(5)>>,
      <<Num(FFRGestureTap), Num(FFRSideLeft)>> }

\* The values of request.readyState the handler is called with.
ReadyStates == { 3, ReadyStateDone }

\* The values of request.status.
Statuses == { StatusOK, 404 }

\* The values of request.responseText.
ResponseTexts == { "ok" }

\* Arguments the host passes to performCallback after the identifier.
HostArgs == { <<>>, <<Num(7)>>, <<Num(7), Num(8)>>, <<Num(8), Num(7)>> }

----------------------------------------------------------------------------
(* The state machine. *)

Init ==
    /\ callbackIdCounter = 0
    /\ callbackTable = EmptyTable
    /\ issued = <<>>
    /\ last = [op |-> "init", args |-> <<>>, ret |-> Undefined, events |-> <<>>]
    /\ removed = {}
    /\ requests = <<>>

\* The identifiers whose entry the events delete.
Deleted(table, evs) ==
    { evs[i][2] : i \in { j \in 1..Len(evs) : evs[j][1] = "delete" } }
        \cap DOMAIN table

\* The registry after a call of op with args whose outcome is r; supplied
\* is the value given as the handler.
Registry(op, args, r, supplied) ==
    /\ r.counter <= MaxIds
    /\ callbackIdCounter' = r.counter
    /\ callbackTable' = ApplyEvents(callbackTable, r.events)
    /\ issued' = IF r.ret = Undefined THEN issued
                 ELSE Append(issued, [id |-> r.ret.n, handler |-> supplied])
    /\ removed' = removed \cup Deleted(callbackTable, r.events)
    /\ last' = [op |-> op, args |-> args, ret |-> r.ret, events |-> r.events]

\* A call whose requests are not followed.
Call(op, args, r, supplied) ==
    /\ Registry(op, args, r, supplied)
    /\ requests' = requests

\* A call whose requests are followed.
CallSending(op, args, r, supplied) ==
    /\ Registry(op, args, r, supplied)
    /\ requests' = requests \o RequestsOf(r.events)
    /\ Len(requests') <= MaxRequests

Effects(evs) == [counter |-> callbackIdCounter, events |-> evs, ret |-> Undefined]

AddGestureFrom(argLists) ==
    \E args \in argLists :
        Call("addGesture", args, addGesture(callbackIdCounter, args),
             CallbackArg(args))

AddGesture == AddGestureFrom(GestureArgs)

AddGestureParams == AddGestureFrom(ParamArgs)

AddCallback ==
    \E f \in CallbackFuns :
        Call("addCallback", <<f>>, addCallback(callbackIdCounter, f), f)

RemoveGesture ==
    \E id \in IdVals :
        Call("removeGesture", <<id>>, Effects(removeGesture(id)), Undefined)

RemoveAllGestures ==
    Call("removeAllGestures", <<>>, Effects(removeAllGestures), Undefined)

RemoveCallback ==
    \E id \in IdVals :
        Call("removeCallback", <<id>>, Effects(removeCallback(id)), Undefined)

PerformCallback ==
    \E id \in IdVals, a \in HostArgs :
        Call("performCallback", <<id>> \o a,
             Effects(performCallback(callbackTable, <<id>> \o a)), Undefined)

Next ==
    \/ AddGesture
    \/ AddCallback
    \/ RemoveGesture
    \/ RemoveAllGestures
    \/ RemoveCallback
    \/ PerformCallback

Spec == Init /\ [][Next]_vars

\* fuffr.enableSides over every sides bitmask.
EnableSides ==
    \E s \in SidesVals, n \in TouchesVals, cbs \in CallbackPairs :
        Call("enableSides", <<s, n, cbs[1], cbs[2]>>,
             Effects(enableSides(s, n, cbs[1], cbs[2])), Undefined)

NextParams ==
    \/ AddGestureParams
    \/ RemoveGesture
    \/ PerformCallback
    \/ EnableSides

SpecParams == Init /\ [][NextParams]_vars

----------------------------------------------------------------------------
(* The library with the transport's answers. *)

BridgeEnableSides ==
    \E cbs \in CallbackPairs :
        CallSending("enableSides", <<Num(FFRSideLeft), Num(1), cbs[1], cbs[2]>>,
                    Effects(enableSides(Num(FFRSideLeft), Num(1), cbs[1], cbs[2])),
                    Undefined)

BridgeLog ==
    \E m \in LogMessages, cbs \in CallbackPairs :
        CallSending("log", <<m, cbs[1], cbs[2]>>,
                    Effects(log(m, cbs[1], cbs[2])), Undefined)

BridgeUpdateFirmware ==
    \E cbs \in CallbackPairs :
        CallSending("updateFirmware", <<cbs[1], cbs[2]>>,
                    Effects(updateFirmware(cbs[1], cbs[2])), Undefined)

BridgeAddGesture ==
    \E args \in BridgeGestureArgs :
        CallSending("addGesture", args, addGesture(callbackIdCounter, args),
                    CallbackArg(args))

BridgeRemoveGesture ==
    \E id \in IdVals :
        CallSending("removeGesture", <<id>>, Effects(removeGesture(id)),
                    Undefined)

BridgeRemoveAllGestures ==
    CallSending("removeAllGestures", <<>>, Effects(removeAllGestures),
                Undefined)

\* The host dispatches without further arguments.
BridgePerformCallback ==
    \E id \in IdVals :
        Call("performCallback", <<id>>,
             Effects(performCallback(callbackTable, <<id>>)), Undefined)

\* The transport reports a change of readyState of one of the requests;
\* at readyState 4 the request is done and is not heard of again.
ReadyStateChange ==
    \E i \in 1..Len(requests), readyState \in ReadyStates,
       status \in Statuses, responseText \in ResponseTexts :
        /\ Registry("onreadystatechange",
                    <<requests[i], Num(readyState), Num(status), Str(responseText)>>,
                    Effects(onreadystatechange(requests[i], readyState, status,
                                               responseText)),
                    Undefined)
        /\ requests' = IF readyState = ReadyStateDone
                       THEN SubSeq(requests, 1, i - 1)
                                \o SubSeq(requests, i + 1, Len(requests))
                       ELSE requests

NextTransport ==
    \/ BridgeEnableSides
    \/ BridgeLog
    \/ BridgeUpdateFirmware
    \/ BridgeAddGesture
    \/ BridgeRemoveGesture
    \/ BridgeRemoveAllGestures
    \/ BridgePerformCallback
    \/ ReadyStateChange

SpecTransport == Init /\ [][NextTransport]_vars

----------------------------------------------------------------------------
(* Reading a command the way the host does: split at the delimiter. *)

\* The fields of s from position start on; i is the scanning position.
RECURSIVE FieldsFrom(_, _, _)
FieldsFrom(s, start, i) ==
    IF i > Len(s)
    THEN IF start > Len(s) THEN <<>> ELSE << SubSeq(s, start, Len(s)) >>
    ELSE IF SubSeq(s, i, i) = "@"
    THEN << SubSeq(s, start, i - 1) >> \o FieldsFrom(s, i + 1, i + 1)
    ELSE FieldsFrom(s, start, i + 1)

Fields(command) == FieldsFrom(command, 1, 1)

\* The command ends with the delimiter.
Terminated(command) ==
    Len(command) > 0 /\ SubSeq(command, Len(command), Len(command)) = "@"

\* The commands among a call's events, in order.
Commands(evs) == SelectSeq(evs, LAMBDA ev : ev[1] = "send")

\* The positions of the events of one kind.
Positions(evs, kind) == { i \in 1..Len(evs) : evs[i][1] = kind }

Raised(evs) == Positions(evs, "throw") # {}

----------------------------------------------------------------------------
(* Properties. *)

\* C1: the identifiers returned by the registrations made so far, in the
\* order of the calls, are 1, 2, 3, ...: the first is 1, each next one is
\* the previous plus 1, and none is returned twice, whatever was removed or
\* dispatched in between.  A call that returns an identifier returns the
\* counter's new value.
C1_IdsSequential ==
    /\ \A i \in 1..Len(issued) : issued[i].id = i
    /\ callbackIdCounter = Len(issued)
    /\ last.op \in {"addGesture", "addCallback"} /\ last.ret # Undefined
           => last.ret = Num(Len(issued))

\* A second identifier is returned by addCallback after identifier 1,
\* returned by addGesture or addCallback, has been removed.
C1_Witness ==
    /\ last.op = "addCallback"
    /\ last.ret = Num(2)
    /\ 1 \notin DOMAIN callbackTable

\* C2: every identifier present in the table was returned by exactly one
\* registration and maps to the handler supplied in that registration.
C2_TableBindsIssued ==
    \A id \in DOMAIN callbackTable :
        \E i \in 1..Len(issued) :
            /\ issued[i].id = id
            /\ issued[i].handler = callbackTable[id]
            /\ \A j \in 1..Len(issued) : issued[j].id = id => j = i

\* Two identifiers are bound to different handlers and a dispatch has just
\* been made.
C2_Witness ==
    /\ last.op = "performCallback"
    /\ DOMAIN callbackTable = {1, 2}
    /\ callbackTable[1] = Fun(1)
    /\ callbackTable[2] = Fun(2)

\* C3: performCallback(id, a, b) for an id registered with a function h
\* invokes h exactly once with the arguments after the identifier, in
\* order; for an id that is not in the table it invokes nothing, raises
\* nothing and leaves the counter and the table as they were.
C3_PerformDispatches ==
    [][ last'.op = "performCallback" =>
          LET id   == last'.args[1].n
              rest == SubSeq(last'.args, 2, Len(last'.args))
          IN  /\ (id \in DOMAIN callbackTable /\ callbackTable[id].t = "function")
                    => last'.events = << <<"invoke", callbackTable[id], rest>> >>
              /\ id \notin DOMAIN callbackTable
                    => /\ last'.events = <<>>
                       /\ callbackIdCounter' = callbackIdCounter
                       /\ callbackTable' = callbackTable ]_vars

\* A registered function has been invoked with two arguments.
C3_Witness ==
    /\ last.op = "performCallback"
    /\ last.args = <<Num(1), Num(7), Num(8)>>
    /\ last.events = << <<"invoke", Fun(1), <<Num(7), Num(8)>> >> >>

\* C4: in an addGesture call every command sent is preceded, in the same
\* call, by the write of the table entry for the identifier the command
\* carries, and after the call that identifier is in the table.
C4_RegisterBeforeSend ==
    last.op = "addGesture" =>
        \A j \in Positions(last.events, "send") :
            \E i \in Positions(last.events, "store") :
                /\ i < j
                /\ Len(Fields(last.events[j][2])) >= 4
                /\ Fields(last.events[j][2])[4] = NumToStr(last.events[i][2])
                /\ last.events[i][2] \in DOMAIN callbackTable
                /\ \E k \in 1..Len(issued) : issued[k].id = last.events[i][2]

\* An addGesture call has sent a command carrying identifier 2.
C4_Witness ==
    /\ last.op = "addGesture"
    /\ last.ret = Num(2)
    /\ Positions(last.events, "send") # {}

\* The value in the callback position of an addGesture call: the last
\* argument of a call with three or four arguments.
CallbackPosition(args) ==
    IF Len(args) \in {3, 4} THEN args[Len(args)] ELSE Undefined

\* C5: an addGesture call whose callback position holds no function
\* registers nothing, returns nothing and sends nothing.
C5_RejectsNonFunction ==
    (last.op = "addGesture" /\ CallbackPosition(last.args).t # "function")
        => last.events = <<>> /\ last.ret = Undefined

\* C6: an addGesture call with fewer than three arguments, or with null or
\* undefined in the callback position, returns undefined, leaves the table
\* and the counter as they were and sends no command.
C6_NoCallbackNoEffect ==
    [][ (/\ last'.op = "addGesture"
         /\ \/ Len(last'.args) < 3
            \/ CallbackPosition(last'.args) \in {Null, Undefined})
        => /\ last'.ret = Undefined
           /\ last'.events = <<>>
           /\ callbackTable' = callbackTable
           /\ callbackIdCounter' = callbackIdCounter
           /\ issued' = issued ]_vars

\* addGesture(type, sides, undefined) has returned undefined on a registry
\* that holds an entry.
C6_Witness ==
    /\ last.op = "addGesture"
    /\ Len(last.args) = 3
    /\ last.args[3] = Undefined
    /\ last.ret = Undefined
    /\ callbackIdCounter = 1
    /\ DOMAIN callbackTable = {1}

\* C7: removeGesture(id) deletes the entry of id, leaving the other entries
\* and the counter as they were, and then sends the one command
\* removeGesture@<id>@, whether or not id was in the table; a second call
\* with the same id changes nothing in the registry and raises nothing.
C7_RemoveGesture ==
    [][ last'.op = "removeGesture" =>
          LET id == last'.args[1].n
          IN  /\ Len(last'.events) = 2
              /\ last'.events[1] = <<"delete", id>>
              /\ last'.events[2][1] = "send"
              /\ Fields(last'.events[2][2]) = <<"removeGesture", NumToStr(id)>>
              /\ Terminated(last'.events[2][2])
              /\ callbackTable' =
                     [k \in DOMAIN callbackTable \ {id} |-> callbackTable[k]]
              /\ callbackIdCounter' = callbackIdCounter
              /\ (last.op = "removeGesture" /\ last.args = last'.args)
                     => callbackTable' = callbackTable ]_vars

\* removeGesture(1) has been called with identifiers 1 and 2 issued, and
\* only 2 is left in the table.
C7_Witness ==
    /\ last.op = "removeGesture"
    /\ last.args = <<Num(1)>>
    /\ DOMAIN callbackTable = {2}

\* The one command of a call that sent exactly one.
TheCommand(evs) == Commands(evs)[1][2]

\* A call of addGesture with four arguments, a params object and a result.
AddedWithParams ==
    /\ last.op = "addGesture"
    /\ last.ret # Undefined
    /\ Len(last.args) = 4
    /\ last.args[3].t = "object"

\* C8 as stated: within a class, whenever both options are set on the
\* params object, whatever their values, the field encoded for the class
\* is the maximum option's.
C8_MaxWheneverSet ==
    AddedWithParams =>
        LET p == last.args[3]
            f == Fields(TheCommand(last.events))
        IN  /\ (p.maximumDuration # Undefined /\ p.minimumDuration # Undefined)
                  => /\ Len(f) >= 6
                     /\ f[5] = "maximumDistance"
                     /\ f[6] = ToStr(p.maximumDuration)
            /\ (p.maximumDistance # Undefined /\ p.minimumDistance # Undefined)
                  => /\ Len(f) >= 6
                     /\ f[Len(f) - 1] = "maximumDistance"
                     /\ f[Len(f)] = ToStr(p.maximumDistance)

\* C8, amended: after addGesture@<type>@<sides>@<id>@ the command carries
\* one field for the duration class if one of its options is non-zero and
\* then one for the distance class if one of its options is non-zero, and
\* nothing else; the field of a class is the maximum option's if that
\* option is non-zero and otherwise the minimum option's.  The params
\* {maximumDuration: 2, minimumDuration: 5, maximumDistance: 3} give the
\* suffix maximumDistance@2@maximumDistance@3@.
C8_ParamEncoding ==
    AddedWithParams =>
        LET p       == last.args[3]
            command == TheCommand(last.events)
            f       == Fields(command)
            hasDur  == Truthy(p.maximumDuration) \/ Truthy(p.minimumDuration)
            hasDist == Truthy(p.maximumDistance) \/ Truthy(p.minimumDistance)
            distAt  == IF hasDur THEN 7 ELSE 5
        IN  /\ Len(Commands(last.events)) = 1
            /\ Terminated(command)
            /\ Len(f) = 4 + (IF hasDur THEN 2 ELSE 0) + (IF hasDist THEN 2 ELSE 0)
            /\ SubSeq(f, 1, 4) = <<"addGesture", ToStr(last.args[1]),
                                   ToStr(last.args[2]), NumToStr(last.ret.n)>>
            /\ Truthy(p.maximumDuration)
                  => f[5] = "maximumDistance" /\ f[6] = ToStr(p.maximumDuration)
            /\ (~Truthy(p.maximumDuration) /\ Truthy(p.minimumDuration))
                  => f[5] = "minumumDistance" /\ f[6] = ToStr(p.minimumDuration)
            /\ Truthy(p.maximumDistance)
                  => /\ f[distAt] = "maximumDistance"
                     /\ f[distAt + 1] = ToStr(p.maximumDistance)
            /\ (~Truthy(p.maximumDistance) /\ Truthy(p.minimumDistance))
                  => /\ f[distAt] = "minumumDistance"
                     /\ f[distAt + 1] = ToStr(p.minimumDistance)
            /\ p = ExampleParams
                  => SubSeq(f, 5, Len(f)) =
                         <<"maximumDistance", "2", "maximumDistance", "3">>

\* addGesture has been called with the params
\* {maximumDuration: 2, minimumDuration: 5, maximumDistance: 3}.
C8_Witness ==
    /\ AddedWithParams
    /\ last.args[3] = ExampleParams
    /\ last.ret = Num(2)

\* C9: an addGesture(type, sides, cb) call that registers sends exactly one
\* command, addGesture@<type>@<sides>@<id>@, where <id> is the value
\* returned and the key under which cb is stored; as the first registration
\* addGesture(4, 4, cb) returns 1 and sends addGesture@4@4@1@, and
\* performCallback(1) invokes the function stored under 1 once, with no
\* arguments.
C9_AddGestureCommand ==
    /\ (last.op = "addGesture" /\ Len(last.args) = 3 /\ last.ret # Undefined)
          => /\ Len(last.events) = 2
             /\ Len(Commands(last.events)) = 1
             /\ Terminated(TheCommand(last.events))
             /\ Fields(TheCommand(last.events)) =
                    <<"addGesture", ToStr(last.args[1]), ToStr(last.args[2]),
                      NumToStr(last.ret.n)>>
             /\ last.ret.n \in DOMAIN callbackTable
             /\ callbackTable[last.ret.n] = last.args[3]
    /\ (/\ last.op = "addGesture"
        /\ last.args = <<Num(FFRGestureTap), Num(FFRSideLeft), Fun(1)>>
        /\ Len(issued) = 1)
          => /\ last.ret = Num(1)
             /\ TheCommand(last.events) = "addGesture@4@4@1@"
    /\ (/\ last.op = "performCallback"
        /\ last.args = <<Num(1)>>
        /\ 1 \in DOMAIN callbackTable
        /\ callbackTable[1].t = "function")
          => last.events = << <<"invoke", callbackTable[1], <<>> >> >>

\* addGesture(Tap, Left, cb) has been the first registration.
C9_Witness ==
    /\ last.op = "addGesture"
    /\ last.args = <<Num(FFRGestureTap), Num(FFRSideLeft), Fun(1)>>
    /\ last.ret = Num(1)
    /\ callbackTable[1] = Fun(1)

\* C10: removeAllGestures sends the one command removeAllGestures@ and
\* leaves the table and the counter as they were; a performCallback that
\* follows it for an id registered with a function invokes that function.
C10_RemoveAllKeepsTable ==
    [][ /\ last'.op = "removeAllGestures"
            => /\ last'.events = << <<"send", "removeAllGestures@">> >>
               /\ callbackTable' = callbackTable
               /\ callbackIdCounter' = callbackIdCounter
        /\ (/\ last.op = "removeAllGestures"
            /\ last'.op = "performCallback"
            /\ last'.args[1].n \in DOMAIN callbackTable
            /\ callbackTable[last'.args[1].n].t = "function")
            => /\ Len(last'.events) = 1
               /\ last'.events[1][1] = "invoke"
               /\ last'.events[1][2] = callbackTable[last'.args[1].n] ]_vars

\* removeAllGestures has been called on a table that holds two entries.
C10_Witness ==
    /\ last.op = "removeAllGestures"
    /\ DOMAIN callbackTable = {1, 2}

\* The functions a call has invoked, in order.
Invoked(evs) == [i \in 1..Len(SelectSeq(evs, LAMBDA ev : ev[1] = "invoke")) |->
                    SelectSeq(evs, LAMBDA ev : ev[1] = "invoke")[i][2]]

\* The last step was the completion (readyState 4) of a request.
Completed ==
    /\ last.op = "onreadystatechange"
    /\ last.args[2] = Num(ReadyStateDone)

\* C11: when a request completes with status 200 its success callback, if
\* it is a function, is called once with the response text and its failure
\* callback is not called; with any other status its failure callback, if
\* it is a function, is called once with the status and its success
\* callback is not called; a callback left out gives no call, and with
\* callbacks that are functions or left out nothing is raised.
C11_CompletionCallbacks ==
    Completed =>
        LET request == last.args[1]
            status  == last.args[3]
            text    == last.args[4]
        IN  /\ (status.n = 200 /\ request.win.t = "function")
                  => last.events = << <<"invoke", request.win, <<text>> >> >>
            /\ (status.n = 200 /\ request.win = Undefined)
                  => last.events = <<>>
            /\ (status.n # 200 /\ request.fail.t = "function")
                  => last.events = << <<"invoke", request.fail, <<status>> >> >>
            /\ (status.n # 200 /\ request.fail = Undefined)
                  => last.events = <<>>
            /\ Len(Invoked(last.events)) <= 1
            /\ (request.win.t \in {"function", "undefined"}
                    /\ request.fail.t \in {"function", "undefined"})
                  => ~Raised(last.events)

\* A request sent with both callbacks has completed with status 404 and
\* its failure callback has been called with 404.
C11_Witness ==
    /\ Completed
    /\ last.args[1].win = Fun(3)
    /\ last.args[3] = Num(404)
    /\ last.events = << <<"invoke", Fun(4), <<Num(404)>> >> >>

\* C12: no call of the library and no step of the transport raises an
\* exception.
C12_NothingThrows == ~Raised(last.events)

\* C13: enableSides(s, n) sends the one command enableSides@s@n@ and
\* leaves the counter and the table as they were.
C13_EnableSidesCommand ==
    [][ last'.op = "enableSides" =>
          /\ Len(last'.events) = 1
          /\ last'.events[1][1] = "send"
          /\ Terminated(last'.events[1][2])
          /\ Fields(last'.events[1][2]) =
                 <<"enableSides", NumToStr(last'.args[1].n),
                   NumToStr(last'.args[2].n)>>
          /\ callbackIdCounter' = callbackIdCounter
          /\ callbackTable' = callbackTable ]_vars

\* enableSides(15, 10) has been called on a registry that holds an entry.
C13_Witness ==
    /\ last.op = "enableSides"
    /\ last.args[1] = Num(15)
    /\ last.args[2] = Num(10)
    /\ last.events[1][2] = "enableSides@15@10@"
    /\ DOMAIN callbackTable = {1}

\* C14: an identifier whose entry removeGesture or removeCallback has
\* deleted is never in the table again, and a performCallback for it
\* invokes nothing, whatever has been registered since.
C14_RemovedNeverInvoked ==
    /\ removed \cap DOMAIN callbackTable = {}
    /\ (last.op = "performCallback" /\ last.args[1].n \in removed)
          => last.events = <<>>

\* performCallback(1) has been called after identifier 1 was removed and
\* identifier 2 was registered.
C14_Witness ==
    /\ last.op = "performCallback"
    /\ last.args[1] = Num(1)
    /\ 1 \in removed
    /\ 2 \in DOMAIN callbackTable

\* C15: removeCallback(id) deletes the entry of id and nothing else: the
\* other entries and the counter stay as they were, an absent id leaves
\* the table as it was, and nothing is raised or sent.
C15_RemoveCallbackFrame ==
    [][ last'.op = "removeCallback" =>
          LET id == last'.args[1].n
          IN  /\ callbackTable' =
                     [k \in DOMAIN callbackTable \ {id} |-> callbackTable[k]]
              /\ id \notin DOMAIN callbackTable => callbackTable' = callbackTable
              /\ callbackIdCounter' = callbackIdCounter
              /\ last'.events = << <<"delete", id>> >> ]_vars

\* removeCallback(1) has been called with identifiers 1 and 2 registered,
\* and the entry of 2 is left.
C15_Witness ==
    /\ last.op = "removeCallback"
    /\ last.args = <<Num(1)>>
    /\ 1 \in removed
    /\ DOMAIN callbackTable = {2}

\* C16: performCallback changes neither the table nor the counter and
\* sends nothing, and a function registered under the id is invoked by
\* every performCallback for it, also by one that follows another.
C16_DispatchKeepsEntry ==
    [][ last'.op = "performCallback" =>
          LET id == last'.args[1].n
          IN  /\ callbackTable' = callbackTable
              /\ callbackIdCounter' = callbackIdCounter
              /\ Positions(last'.events, "send") = {}
              /\ (id \in DOMAIN callbackTable /\ callbackTable[id].t = "function")
                    => Invoked(last'.events) = << callbackTable[id] >> ]_vars

\* A dispatch has invoked a function and its entry is still in the table.
C16_Witness ==
    /\ last.op = "performCallback"
    /\ Invoked(last.events) = << Fun(1) >>
    /\ last.args[1].n \in DOMAIN callbackTable
    /\ callbackTable[last.args[1].n] = Fun(1)

\* C17: addGesture and removeGesture open their request without callbacks;
\* no readyState change of any request, whatever its status, changes the
\* counter or the table, and the completion of an addGesture or
\* removeGesture request calls nothing.
C17_TransportKeepsRegistry ==
    [][ /\ last'.op \in {"addGesture", "removeGesture"}
            => \A j \in Positions(last'.events, "send") :
                   /\ RequestOf(last'.events[j]).win = Undefined
                   /\ RequestOf(last'.events[j]).fail = Undefined
        /\ last'.op = "onreadystatechange"
            => /\ callbackTable' = callbackTable
               /\ callbackIdCounter' = callbackIdCounter
               /\ Fields(last'.args[1].command)[1]
                      \in {"addGesture", "removeGesture"}
                    => last'.events = <<>> ]_vars

\* The request of addGesture@4@4@1@ has completed with status 404 and the
\* handler is still registered under 1.
C17_Witness ==
    /\ Completed
    /\ last.args[1].command = "addGesture@4@4@1@"
    /\ last.args[3] = Num(404)
    /\ 1 \in DOMAIN callbackTable
    /\ callbackTable[1] = Fun(1)

\* The params with the duration options and the distance options exchanged.
Exchanged(p) ==
    Obj(p.maximumDistance, p.minimumDistance, p.maximumDuration, p.minimumDuration)

\* Only one of the two classes has a non-zero option.
OneClass(p) ==
    (Truthy(p.maximumDuration) \/ Truthy(p.minimumDuration))
        # (Truthy(p.maximumDistance) \/ Truthy(p.minimumDistance))

\* C18: a command with a single field does not tell a duration from a
\* distance: the field is named maximumDistance for a maximum option and
\* minumumDistance for a minimum option of either class, and the command
\* is the one the same call sends for the params with the two classes
\* exchanged.
C18_ClassNotEncoded ==
    (AddedWithParams /\ OneClass(last.args[3])) =>
        LET p == last.args[3]
            f == Fields(TheCommand(last.events))
            maxV == IF Truthy(p.maximumDuration) THEN p.maximumDuration
                    ELSE p.maximumDistance
            minV == IF Truthy(p.minimumDuration) THEN p.minimumDuration
                    ELSE p.minimumDistance
        IN  /\ Len(f) = 6
            /\ Truthy(maxV) => f[5] = "maximumDistance" /\ f[6] = ToStr(maxV)
            /\ (~Truthy(maxV) /\ Truthy(minV))
                  => f[5] = "minumumDistance" /\ f[6] = ToStr(minV)
            /\ TheCommand(last.events) =
                   BasicMessage(last.args[1], last.args[2], last.ret.n)
                       \o GestureParams(Exchanged(p))

\* addGesture has been called with the params {maximumDuration: 2} and has
\* sent a command whose field is named maximumDistance.
C18_Witness ==
    /\ AddedWithParams
    /\ last.args[3] = Obj(Num(2), Undefined, Undefined, Undefined)
    /\ TheCommand(last.events) = "addGesture@1@8@1@maximumDistance@2@"

====
